---- MODULE Spec2Model ----
(***************************************************************************)
(* Model of the asynchronous key-value storage backends of                  *)
(* angular-async-local-storage:                                             *)
(*   - IndexedDBDatabase with the localStorage fallback (src/unnamed/       *)
(*     part_000), called the "current" variant below;                       *)
(*   - the earlier IndexedDBDatabase without fallback (src/unnamed/         *)
(*     part_001), called the "legacy" variant;                              *)
(*   - LocalStorageDatabase (localstorage-database.ts), the fallback.       *)
(* The embedded engine (IndexedDB) is modelled by its transaction queue:    *)
(* transactions on the single object store run in creation order, a         *)
(* read-write transaction exclusively, and each request ends with one       *)
(* success or error event (a cursor request with one success per entry).    *)
(***************************************************************************)
EXTENDS Integers, Sequences, FiniteSets, TLC

\* ---------------------------------------------------------------- bounds
MaxOps == 3
MaxErrors == 1

\* ---------------------------------------------------------------- values
\* A JavaScript value is [d, b]: the base value b under d nested
\* single-field wrapper objects { value: ... }.
KeySeq == <<"k1", "k2">>
Keys == {KeySeq[n] : n \in 1..Len(KeySeq)}

JUndef == [d |-> 0, b |-> "undefined"]
JNull == [d |-> 0, b |-> "null"]
JTrue == [d |-> 0, b |-> "true"]
JFalse == [d |-> 0, b |-> "false"]
Absent == [d |-> 0, b |-> "absent"]
Str(s) == [d |-> 0, b |-> s]
Bool(x) == IF x THEN JTrue ELSE JFalse
JEmpty == [d |-> 0, b |-> "empty"]
JZero == [d |-> 0, b |-> "zero"]
JObj == [d |-> 0, b |-> "obj"]
JArr == [d |-> 0, b |-> "arr"]

\* the values a caller passes to setItem
UserData == {JUndef, JNull, Str("v1"), Str("v2")}

IsNullish(v) == v = JUndef \/ v = JNull

\* { [this.dataPath]: data }
Wrap(v) == [d |-> v.d + 1, b |-> v.b]

\* non-null JSON values: '', 0, false, a string, an array, an object, and
\* objects that have a property named 'value' themselves
JsonData == {Str("v1"), JEmpty, JZero, JFalse, JObj, JArr, Wrap(Str("v1")), Wrap(JNull)}

\* request.result[this.dataPath]
Field(v) == [d |-> v.d - 1, b |-> v.b]

\* results delivered to a subscriber: a value, a key list or a number
NoRes == [t |-> "none", v |-> JUndef, ks |-> {}, n |-> 0]
ValRes(v) == [t |-> "val", v |-> v, ks |-> {}, n |-> 0]
KeysRes(ks) == [t |-> "keys", v |-> JUndef, ks |-> ks, n |-> 0]
NumRes(n) == [t |-> "num", v |-> JUndef, ks |-> {}, n |-> n]

\* text held by the synchronous engine (window.localStorage)
NoText == [t |-> "none", v |-> JUndef]

\* JSON.stringify(data), coerced to a string by Storage.setItem:
\* undefined is not JSON and is stored as the text "undefined"; a property
\* whose value is undefined is left out of the text
Stringify(v) ==
  IF v = JUndef THEN [t |-> "bad", v |-> JUndef]
  ELSE IF v.b = "undefined" THEN [t |-> "json", v |-> [d |-> v.d - 1, b |-> "obj"]]
  ELSE [t |-> "json", v |-> v]

\* JSON.parse(unparsedData) succeeds on JSON text only
ParseOk(txt) == txt.t = "json"
Parse(txt) == txt.v

\* the schema argument of the service's getItem, and the validator's
\* verdict on a value: the validator is a black box that accepts or rejects
\* a value, and throws on a schema that is itself malformed
NoSchema == "none"
Schemas == {"string", "object", "malformed"}
SchemaMalformed(schema) == schema = "malformed"
Validate(v, schema) ==
  CASE schema = "string" -> v.d = 0 /\ v.b \in {"v1", "v2", "empty"}
    [] schema = "object" -> v = JObj
    [] OTHER -> FALSE

\* ---------------------------------------------------------------- state
VARIABLES env, store, ls, opens, openReq, database, fallback,
          waiters, txs, ops, errs

vars == <<env, store, ls, opens, openReq, database, fallback,
          waiters, txs, ops, errs>>

Variants == {"current", "legacy"}
ReadKinds == {"get", "keys", "has", "size"}
WriteKinds == {"set", "remove", "clear"}
Kinds == ReadKinds \cup WriteKinds

\* the legacy class has getItem, setItem, removeItem and clear only
KindsOf(variant) == IF variant = "legacy" THEN {"get", "set", "remove", "clear"} ELSE Kinds

Settled(o) == o.completes > 0 \/ o.errs > 0
Succeeded(o) == o.completes > 0 /\ o.errs = 0
SettledSet(os) == {n \in 1..Len(os) : Settled(os[n])}
Subscribed(o) == o.sub > 0
SubCount(os) == Cardinality({n \in 1..Len(os) : Subscribed(os[n])})

\* one call of a contract operation and what its subscriber has observed;
\* sub and after record when it was subscribed, waited whether the
\* ReplaySubject had no handle to replay at that moment
NewOp(kind, key, data, path, res, err) ==
  [kind |-> kind, key |-> key, data |-> data, path |-> path,
   listening |-> FALSE, sub |-> 0, after |-> {}, acc |-> {},
   nexts |-> 0, errs |-> 0, completes |-> 0, res |-> res, err |-> err,
   schema |-> NoSchema, forget |-> FALSE, waited |-> FALSE]

\* ------------------------------------------------------- rx operators
\* mutant of First: the first() operator is missing, so the value is
\* delivered but the stream stays open
FirstNoComplete(o, r) ==
  [o EXCEPT !.nexts = @ + 1, !.res = r]

\* first(): deliver the first value, complete, and unsubscribe the source
First(o, r) ==
  [o EXCEPT !.nexts = @ + 1, !.completes = @ + 1, !.listening = FALSE, !.res = r]

\* an error notification ends the subscription
Fail(o, e) ==
  [o EXCEPT !.errs = @ + 1, !.listening = FALSE, !.err = e]

\* of(x) / throwError(e): emit on subscription, then complete
OfEmit(o) ==
  IF o.err = "none"
    THEN [o EXCEPT !.nexts = @ + 1, !.completes = @ + 1]
    ELSE [o EXCEPT !.errs = @ + 1]

\* the error notification the service puts in place of a value
Rejected(o, e) ==
  [o EXCEPT !.nexts = 0, !.completes = 0, !.errs = 1, !.res = NoRes, !.err = e]

\* mutant of Validated: a value that is null is validated too
ValidatedAlways(o) ==
  IF o.kind = "get" /\ Succeeded(o) /\ o.schema # NoSchema
    THEN IF SchemaMalformed(o.schema) THEN Rejected(o, "schema")
         ELSE IF ~Validate(o.res.v, o.schema) THEN Rejected(o, "validation")
         ELSE o
  ELSE o

\* mutant of Validated: the verdict of the validator is ignored
ValidatedNever(o) == o

\* mutant of Validated: a malformed schema counts as a rejected value
ValidatedOneError(o) ==
  IF o.kind = "get" /\ Succeeded(o) /\ o.schema # NoSchema /\ o.res.v # JNull
    THEN IF SchemaMalformed(o.schema) \/ ~Validate(o.res.v, o.schema)
           THEN Rejected(o, "validation")
         ELSE o
  ELSE o

\* the service's getItem, applied to what the backend's getItem delivers:
\* null is passed on; with a schema any other value goes to the validator,
\* which throws on a malformed schema; a rejected value becomes the error
\* 'JSON invalid'
Validated(o) ==
  IF o.kind = "get" /\ Succeeded(o) /\ o.schema # NoSchema /\ o.res.v # JNull
    THEN IF SchemaMalformed(o.schema) THEN Rejected(o, "schema")
         ELSE IF ~Validate(o.res.v, o.schema) THEN Rejected(o, "validation")
         ELSE o
  ELSE o

\* ------------------------------------------- LocalStorageDatabase
\* getItem: parse the stored text; unparsable text is an error result
LsGetItem(l, key) ==
  IF l[key] = NoText THEN [res |-> ValRes(JNull), err |-> "none"]
  ELSE IF ParseOk(l[key]) THEN [res |-> ValRes(Parse(l[key])), err |-> "none"]
  ELSE [res |-> NoRes, err |-> "parse"]

LsSetItem(l, key, data) == [l EXCEPT ![key] = Stringify(data)]

LsRemoveItem(l, key) == [l EXCEPT ![key] = NoText]

LsClear(l) == [k \in Keys |-> NoText]

LsKeys(l) == {k \in Keys : l[k] # NoText}

LsHas(l, key) == l[key] # NoText

LsSize(l) == Cardinality(LsKeys(l))

\* the storage after the fallback ran the operation (it runs when called)
LsApply(l, kind, key, data) ==
  CASE kind = "set" -> LsSetItem(l, key, data)
    [] kind = "remove" -> LsRemoveItem(l, key)
    [] kind = "clear" -> LsClear(l)
    [] OTHER -> l

\* the observable the fallback returns: of(result) or throwError
LsResult(l, kind, key) ==
  CASE kind = "get" -> LsGetItem(l, key)
    [] kind = "keys" -> [res |-> KeysRes(LsKeys(l)), err |-> "none"]
    [] kind = "has" -> [res |-> ValRes(Bool(LsHas(l, key))), err |-> "none"]
    [] kind = "size" -> [res |-> NumRes(LsSize(l)), err |-> "none"]
    [] OTHER -> [res |-> ValRes(JTrue), err |-> "none"]

\* ---------------------------------------------- IndexedDBDatabase
IsObject(v) == v.d >= 1 \/ v.b \in {"obj", "arr"}
HasDataPath(v) == v.d >= 1
Falsy(v) == v.d = 0 /\ v.b \in {"undefined", "null", "false", "empty", "zero"}

\* mutant of Unwrap: every nested { value: ... } is unwrapped
RECURSIVE UnwrapDeep(_)
UnwrapDeep(result) ==
  IF ~IsNullish(result) /\ IsObject(result) /\ HasDataPath(result)
       /\ ~IsNullish(Field(result))
    THEN UnwrapDeep(Field(result))
  ELSE IF ~IsNullish(result) THEN result
  ELSE JNull

\* mutant of Unwrap: the final return null is missing
UnwrapNoNull(result) ==
  IF ~IsNullish(result) /\ IsObject(result) /\ HasDataPath(result)
       /\ ~IsNullish(Field(result))
    THEN Field(result)
  ELSE result

\* getItem's mapCallback: unwrap { value: ... } when the field is set
Unwrap(result) ==
  IF ~IsNullish(result) /\ IsObject(result) /\ HasDataPath(result)
       /\ ~IsNullish(Field(result))
    THEN Field(result)
  ELSE IF ~IsNullish(result) THEN result
  ELSE JNull

\* legacy: result && (this.dataPath in result) ? result[this.dataPath] : null
\* (the in operator throws a TypeError on a primitive)
LegacyUnwrapThrows(result) == ~Falsy(result) /\ ~IsObject(result)
LegacyUnwrap(result) ==
  IF ~Falsy(result) /\ HasDataPath(result) THEN Field(result) ELSE JNull

\* ('getKey' in store) ? store.getKey(key) : store.get(key)
GetKeyRequest(v2) == IF v2 THEN "getKey" ELSE "get"

\* mutant of ChooseWrite: an existing entry is deleted, to be added afterwards
ChooseWriteDelete(existing) == IF existing = JUndef THEN "add" ELSE "delete"

\* mutant of ChooseWrite: the entry is always written with store.add
ChooseWriteAdd(existing) == "add"

\* (existingEntry === undefined) ? store.add(...) : store.put(...)
ChooseWrite(existing) == IF existing = JUndef THEN "add" ELSE "put"

\* mutant of FirstMode: setItem opens its transaction without a mode
FirstModeSetDefault(variant, kind) ==
  IF kind \in ReadKinds \/ kind = "set" \/ (variant = "legacy" /\ kind = "remove")
    THEN "readonly" ELSE "readwrite"

\* mutant of FirstMode: every transaction is opened with the default mode
FirstModeReadonly(variant, kind) == "readonly"

\* mode of the transaction an operation opens when it gets the connection
FirstMode(variant, kind) ==
  IF kind \in ReadKinds \/ (variant = "legacy" /\ kind = "remove")
    THEN "readonly" ELSE "readwrite"

\* mutant of FirstRequest: removeItem empties the object store
FirstRequestRemoveClears(variant, v2, kind) ==
  CASE kind = "get" -> "get"
    [] kind = "set" -> GetKeyRequest(v2)
    [] kind = "remove" -> IF variant = "legacy" THEN "get" ELSE "clear"
    [] kind = "clear" -> "clear"
    [] kind = "keys" -> IF v2 THEN "getAllKeys" ELSE "cursor"
    [] kind = "has" -> GetKeyRequest(v2)
    [] kind = "size" -> "count"

\* mutant of FirstRequest: clear deletes the entry of one key only
FirstRequestClearDeletes(variant, v2, kind) ==
  CASE kind = "get" -> "get"
    [] kind = "set" -> GetKeyRequest(v2)
    [] kind = "remove" -> IF variant = "legacy" THEN "get" ELSE "delete"
    [] kind = "clear" -> "delete"
    [] kind = "keys" -> IF v2 THEN "getAllKeys" ELSE "cursor"
    [] kind = "has" -> GetKeyRequest(v2)
    [] kind = "size" -> "count"

\* first request an operation places on its object store
FirstRequest(variant, v2, kind) ==
  CASE kind = "get" -> "get"
    [] kind = "set" -> GetKeyRequest(v2)
    [] kind = "remove" -> IF variant = "legacy" THEN "get" ELSE "delete"
    [] kind = "clear" -> "clear"
    [] kind = "keys" -> IF v2 THEN "getAllKeys" ELSE "cursor"
    [] kind = "has" -> GetKeyRequest(v2)
    [] kind = "size" -> "count"

\* this.database.pipe(map((database) => database.transaction(...).objectStore(...)))
\* followed by the operation's first request
FirstTx(n, o, h) ==
  [op |-> n, db |-> h, mode |-> FirstMode(env.variant, o.kind),
   req |-> FirstRequest(env.variant, env.idbV2, o.kind),
   key |-> o.key, val |-> Wrap(o.data), seen |-> {}]

\* mutant of FirstTxs: the observers are notified last subscribed first
FirstTxsReversed(ws, os, h) ==
  [n \in 1..Len(ws) |-> FirstTx(ws[Len(ws) + 1 - n], os[ws[Len(ws) + 1 - n]], h)]

\* the transactions opened for the operations waiting on the ReplaySubject
\* when a handle is published, in subscription order
RECURSIVE FirstTxs(_, _, _)
FirstTxs(ws, os, h) ==
  IF ws = <<>> THEN <<>>
  ELSE <<FirstTx(Head(ws), os[Head(ws)], h)>> \o FirstTxs(Tail(ws), os, h)

\* a new subscriber of the ReplaySubject is replayed every buffered handle
RECURSIVE Replay(_, _, _)
Replay(n, o, buf) ==
  IF buf = <<>> THEN <<>>
  ELSE <<FirstTx(n, o, Head(buf))>> \o Replay(n, o, Tail(buf))

\* mutant of Publish: the handle is registered by two handlers
PublishTwice(buf, h) == Append(Append(buf, h), h + 1)

\* this.database.next(request.result)
Publish(buf, h) == Append(buf, h)

\* mutant of CallResult: the operation does not test this.fallback
CallResultNoFallback(kind, key, data) ==
  IF kind = "set" /\ IsNullish(data)
    THEN [op |-> NewOp(kind, key, data, "noop", ValRes(JTrue), "none"), ls |-> ls]
  ELSE [op |-> NewOp(kind, key, data, "idb", NoRes, "none"), ls |-> ls]

\* calling an operation builds its (cold) result; the fallback test, the
\* fallback's own work and the null test all happen at call time
CallResult(kind, key, data) ==
  IF env.variant = "current" /\ fallback
    THEN LET r == LsResult(ls, kind, key)
         IN [op |-> NewOp(kind, key, data, "fallback", r.res, r.err),
             ls |-> LsApply(ls, kind, key, data)]
  ELSE IF kind = "set" /\ IsNullish(data)
    THEN [op |-> NewOp(kind, key, data, "noop", ValRes(JTrue), "none"), ls |-> ls]
  ELSE [op |-> NewOp(kind, key, data, "idb", NoRes, "none"), ls |-> ls]

\* subscribing starts operation n of os: an immediate result is delivered,
\* an embedded-database operation subscribes to the connection ReplaySubject
SubscribeResult(os, n) ==
  LET o == [os[n] EXCEPT !.sub = SubCount(os) + 1, !.after = SettledSet(os)]
      l == [o EXCEPT !.listening = TRUE, !.waited = (database.buf = <<>>)]
  IN IF o.path # "idb"
       THEN [ops |-> [os EXCEPT ![n] = Validated(OfEmit(o))], waiters |-> waiters, txs |-> txs]
     ELSE IF database.errored
       THEN [ops |-> [os EXCEPT ![n] = Fail(o, "connection")], waiters |-> waiters, txs |-> txs]
     ELSE [ops |-> [os EXCEPT ![n] = l],
           waiters |-> IF database.buf = <<>> THEN Append(waiters, n) ELSE waiters,
           txs |-> txs \o Replay(n, o, database.buf)]

\* localStorage.setItem(...) and the like, not (yet) subscribed
Call(kind, key, data) ==
  /\ Len(ops) < MaxOps
  /\ kind \in KindsOf(env.variant)
  /\ LET c == CallResult(kind, key, data)
     IN /\ ops' = Append(ops, c.op)
        /\ ls' = c.ls
  /\ UNCHANGED <<env, store, opens, openReq, database, fallback, waiters, txs, errs>>

\* .subscribe(...) on the result of an earlier call
Subscribe(n) ==
  /\ n \in 1..Len(ops)
  /\ ~Subscribed(ops[n])
  /\ LET s == SubscribeResult(ops, n)
     IN /\ ops' = s.ops
        /\ waiters' = s.waiters
        /\ txs' = s.txs
  /\ UNCHANGED <<env, store, ls, opens, openReq, database, fallback, errs>>

\* localStorage.setItem(...).subscribe(...): call and subscribe in one statement
Issue(kind, key, data) ==
  /\ Len(ops) < MaxOps
  /\ kind \in KindsOf(env.variant)
  /\ LET c == CallResult(kind, key, data)
         s == SubscribeResult(Append(ops, c.op), Len(ops) + 1)
     IN /\ ops' = s.ops
        /\ waiters' = s.waiters
        /\ txs' = s.txs
        /\ ls' = c.ls
  /\ UNCHANGED <<env, store, opens, openReq, database, fallback, errs>>

\* the service's getItem(key, { schema }).subscribe(...), and its
\* setItemSubscribe, removeItemSubscribe and clearSubscribe, which subscribe
\* for the caller with observers that do nothing
IssueService(kind, key, data, schema, forget) ==
  /\ Len(ops) < MaxOps
  /\ kind \in KindsOf(env.variant)
  /\ schema # NoSchema => kind = "get"
  /\ forget => kind \in WriteKinds
  /\ LET c == CallResult(kind, key, data)
         o == [c.op EXCEPT !.schema = schema, !.forget = forget]
         s == SubscribeResult(Append(ops, o), Len(ops) + 1)
     IN /\ ops' = s.ops
        /\ waiters' = s.waiters
        /\ txs' = s.txs
        /\ ls' = c.ls
  /\ UNCHANGED <<env, store, opens, openReq, database, fallback, errs>>

\* this.fallback = new LocalStorageDatabase(prefix): the field initializer
\* reads window.localStorage and throws where storage access is denied
SetFallback(usable, fb) == IF usable THEN TRUE ELSE fb

\* success event of the open request: this.database.next(request.result)
OpenSuccess ==
  /\ openReq = "pending"
  /\ openReq' = "success"
  /\ database' = [database EXCEPT !.buf = Publish(@, opens)]
  /\ txs' = txs \o FirstTxs(waiters, ops, opens)
  /\ waiters' = <<>>
  /\ UNCHANGED <<env, store, ls, opens, fallback, ops, errs>>

\* mutant of OpenError: the race is not closed by first(), so an error event
\* is handled after the success event as well
OpenErrorAfterSuccess ==
  /\ openReq \in {"pending", "success"}
  /\ openReq' = "error"
  /\ IF env.variant = "current"
       THEN /\ fallback' = SetFallback(env.lsUsable, fallback)
            /\ UNCHANGED <<database, ops, waiters>>
       ELSE /\ database' = [database EXCEPT !.errored = TRUE]
            /\ ops' = [n \in 1..Len(ops) |->
                        IF ops[n].listening THEN Fail(ops[n], "connection") ELSE ops[n]]
            /\ waiters' = <<>>
            /\ fallback' = fallback
  /\ UNCHANGED <<env, store, ls, opens, txs, errs>>

\* error event of the open request: current sets the fallback,
\* legacy forwards the error through the ReplaySubject
OpenError ==
  /\ openReq = "pending"
  /\ openReq' = "error"
  /\ IF env.variant = "current"
       THEN /\ fallback' = SetFallback(env.lsUsable, fallback)
            /\ UNCHANGED <<database, ops, waiters>>
       ELSE /\ database' = [database EXCEPT !.errored = TRUE]
            /\ ops' = [n \in 1..Len(ops) |->
                        IF ops[n].listening THEN Fail(ops[n], "connection") ELSE ops[n]]
            /\ waiters' = <<>>
            /\ fallback' = fallback
  /\ UNCHANGED <<env, store, ls, opens, txs, errs>>


\* ------------------------------------------------ embedded engine
\* mutant of Eligible: transactions are not isolated from one another
EligibleNoIsolation(q, n) == TRUE

\* a read-write transaction starts when every earlier transaction on the
\* store has finished, a read-only one when every earlier read-write has
Eligible(q, n) ==
  IF q[n].mode = "readwrite" THEN n = 1
  ELSE \A m \in 1..(n - 1) : q[m].mode = "readonly"

RemoveAt(q, n) == SubSeq(q, 1, n - 1) \o SubSeq(q, n + 1, Len(q))

Present(st) == {k \in Keys : st[k] # Absent}

MinKey(ks) == KeySeq[CHOOSE n \in 1..Len(KeySeq) :
                 KeySeq[n] \in ks /\ \A m \in 1..(n - 1) : KeySeq[m] \notin ks]

\* mutant of RequestResult: the cursor reports exhaustion after one entry
RequestResultCursorOnce(st, t) ==
  CASE t.req = "get" -> IF st[t.key] = Absent THEN JUndef ELSE st[t.key]
    [] t.req = "getKey" -> IF st[t.key] = Absent THEN JUndef ELSE Str(t.key)
    [] t.req = "cursor" ->
         IF Present(st) \ t.seen = {} \/ t.seen # {} THEN JNull
         ELSE Str(MinKey(Present(st) \ t.seen))
    [] OTHER -> JUndef

\* request.result when the success event fires
RequestResult(st, t) ==
  CASE t.req = "get" -> IF st[t.key] = Absent THEN JUndef ELSE st[t.key]
    [] t.req = "getKey" -> IF st[t.key] = Absent THEN JUndef ELSE Str(t.key)
    [] t.req = "cursor" ->
         IF Present(st) \ t.seen = {} THEN JNull ELSE Str(MinKey(Present(st) \ t.seen))
    [] OTHER -> JUndef

\* store.add on a key that holds an entry ends with a ConstraintError
RequestFails(st, t) == t.req = "add" /\ st[t.key] # Absent

\* the object store after the request ran
ApplyRequest(st, t) ==
  CASE t.req \in {"add", "put"} -> [st EXCEPT ![t.key] = t.val]
    [] t.req = "delete" -> [st EXCEPT ![t.key] = Absent]
    [] t.req = "clear" -> [k \in Keys |-> Absent]
    [] OTHER -> st

\* mutant of Emitted: has maps a found key to false
EmittedHasInverted(variant, o, t, r, st) ==
  CASE o.kind = "get" -> ValRes(IF variant = "legacy" THEN LegacyUnwrap(r) ELSE Unwrap(r))
    [] o.kind = "has" -> ValRes(Bool(r = JUndef))
    [] o.kind = "size" -> NumRes(Cardinality(Present(st)))
    [] o.kind = "keys" -> IF t.req = "cursor" THEN KeysRes(o.acc) ELSE KeysRes(Present(st))
    [] OTHER -> ValRes(JTrue)

\* the value each operation maps the success event to
Emitted(variant, o, t, r, st) ==
  CASE o.kind = "get" -> ValRes(IF variant = "legacy" THEN LegacyUnwrap(r) ELSE Unwrap(r))
    [] o.kind = "has" -> ValRes(Bool(r # JUndef))
    [] o.kind = "size" -> NumRes(Cardinality(Present(st)))
    [] o.kind = "keys" -> IF t.req = "cursor" THEN KeysRes(o.acc) ELSE KeysRes(Present(st))
    [] OTHER -> ValRes(JTrue)

\* a success event of the oldest runnable request, and the handler it runs
Serve(n) ==
  /\ n \in 1..Len(txs)
  /\ Eligible(txs, n)
  /\ LET t == txs[n]
         o == ops[t.op]
         r == RequestResult(store, t)
     IN IF RequestFails(store, t)
          THEN /\ ops' = [ops EXCEPT ![t.op] = Fail(o, "constraint")]
               /\ txs' = RemoveAt(txs, n)
               /\ store' = store
          ELSE /\ store' = ApplyRequest(store, t)
               /\ CASE o.kind = "set" /\ t.req \in {"get", "getKey"} ->
                         \* the write is placed in the same transaction
                         /\ txs' = [txs EXCEPT ![n].req = ChooseWrite(r)]
                         /\ ops' = ops
                    [] env.variant = "legacy" /\ t.req = "get" /\ LegacyUnwrapThrows(r) ->
                         /\ ops' = [ops EXCEPT ![t.op] = Fail(o, "type")]
                         /\ txs' = RemoveAt(txs, n)
                    [] o.kind = "remove" /\ t.req = "get" /\ ~LegacyUnwrapThrows(r) ->
                         \* legacy removeItem: delete in a new transaction
                         IF ~IsNullish(LegacyUnwrap(r))
                           THEN /\ txs' = Append(RemoveAt(txs, n),
                                            [t EXCEPT !.mode = "readwrite", !.req = "delete"])
                                /\ ops' = ops
                           ELSE /\ txs' = RemoveAt(txs, n)
                                /\ ops' = [ops EXCEPT ![t.op] = First(o, ValRes(JTrue))]
                    [] t.req = "cursor" /\ r # JNull ->
                         \* keys.push(cursor.key); cursor.continue()
                         /\ txs' = [txs EXCEPT ![n].seen = @ \cup {r.b}]
                         /\ ops' = [ops EXCEPT ![t.op].acc = @ \cup {r.b}]
                    [] OTHER ->
                         /\ txs' = RemoveAt(txs, n)
                         /\ ops' = [ops EXCEPT ![t.op] =
                                      Validated(First(o, Emitted(env.variant, o, t, r, store)))]
  /\ UNCHANGED <<env, ls, opens, openReq, database, fallback, waiters, errs>>

\* mutant of ServeError: the error handler is registered on the connection,
\* so an error event fails every operation that has a request in flight
ServeErrorShared(n) ==
  /\ n \in 1..Len(txs)
  /\ Eligible(txs, n)
  /\ errs < MaxErrors
  /\ errs' = errs + 1
  /\ ops' = [i \in 1..Len(ops) |->
               IF \E m \in 1..Len(txs) : txs[m].op = i THEN Fail(ops[i], "request") ELSE ops[i]]
  /\ txs' = <<>>
  /\ UNCHANGED <<env, store, ls, opens, openReq, database, fallback, waiters>>

\* an error event of a runnable request: the transaction aborts and the
\* operation's error$ throws request.error
ServeError(n) ==
  /\ n \in 1..Len(txs)
  /\ Eligible(txs, n)
  /\ errs < MaxErrors
  /\ errs' = errs + 1
  /\ ops' = [ops EXCEPT ![txs[n].op] = Fail(@, "request")]
  /\ txs' = RemoveAt(txs, n)
  /\ UNCHANGED <<env, store, ls, opens, openReq, database, fallback, waiters>>

\* ------------------------------------------------- specification
\* state after construction; the object store may hold an entry written
\* by an earlier session
Init ==
  /\ env \in [variant : Variants, idbV2 : BOOLEAN, lsUsable : BOOLEAN, openThrew : BOOLEAN]
  /\ env.variant = "legacy" => (env.lsUsable /\ ~env.openThrew)
  /\ env.openThrew => (env.lsUsable /\ env.idbV2)
  /\ store \in {[k \in Keys |-> Absent],
                [k \in Keys |-> IF k = KeySeq[1] THEN Wrap(Str("v1")) ELSE Absent]}
  /\ env.openThrew => store = [k \in Keys |-> Absent]
  /\ ls = [k \in Keys |-> NoText]
  /\ opens = 1
  /\ openReq = IF env.openThrew THEN "none" ELSE "pending"
  /\ database = [buf |-> <<>>, errored |-> FALSE]
  /\ fallback = (env.openThrew /\ SetFallback(env.lsUsable, FALSE))
  /\ waiters = <<>>
  /\ txs = <<>>
  /\ ops = <<>>
  /\ errs = 0

\* the operations a caller can start (unused arguments are fixed)
Shapes ==
  {sh \in [kind : Kinds, key : Keys, data : UserData] :
     /\ sh.kind # "set" => sh.data = JUndef
     /\ sh.kind \in {"clear", "keys", "size"} => sh.key = KeySeq[1]}

IssueAny == \E sh \in Shapes : Issue(sh.kind, sh.key, sh.data)

Engine ==
  \/ OpenSuccess
  \/ OpenError
  \/ \E n \in 1..MaxOps : Serve(n)
  \/ \E n \in 1..MaxOps : ServeError(n)

Next ==
  \/ IssueAny
  \/ Engine

Spec == Init /\ [][Next]_vars

\* writes and reads of one key, issued by one caller
OrderShapes ==
  {sh \in Shapes : /\ sh.key = KeySeq[1]
                   /\ sh.kind \in {"get", "set", "remove", "clear"}
                   /\ sh.data \in {JUndef, JNull, Str("v1"), Str("v2")}
                   /\ sh.kind = "set" => sh.data # JUndef}

IssueOrder == \E sh \in OrderShapes : Issue(sh.kind, sh.key, sh.data)

NextOrder ==
  \/ IssueOrder
  \/ OpenSuccess
  \/ OpenError
  \/ \E n \in 1..MaxOps : Serve(n)
  \/ \E n \in 1..MaxOps : ServeError(n)

SpecOrder == Init /\ [][NextOrder]_vars

\* one operation of every kind, for the connection scenarios
ConnShapes ==
  {sh \in Shapes : /\ sh.key = KeySeq[1]
                   /\ sh.kind = "set" => sh.data = Str("v1")}

IssueConn == \E sh \in ConnShapes : Issue(sh.kind, sh.key, sh.data)

NextConn ==
  \/ IssueConn
  \/ OpenSuccess
  \/ OpenError
  \/ \E n \in 1..MaxOps : Serve(n)
  \/ \E n \in 1..MaxOps : ServeError(n)

SpecConn == Init /\ [][NextConn]_vars

\* testGetItem: values of every JSON shape stored and read back
DataShapes ==
  {sh \in [kind : {"get", "set"}, key : {KeySeq[1]}, data : JsonData \cup {JUndef}] :
     (sh.kind = "set") = (sh.data # JUndef)}

IssueData == \E sh \in DataShapes : Issue(sh.kind, sh.key, sh.data)

NextData ==
  \/ IssueData
  \/ OpenSuccess
  \/ OpenError
  \/ \E n \in 1..MaxOps : Serve(n)
  \/ \E n \in 1..MaxOps : ServeError(n)

SpecData == Init /\ [][NextData]_vars

\* entries under two keys, removed, listed and tested
KeysShapes ==
  {sh \in Shapes : /\ sh.kind \in {"set", "remove", "clear", "get", "keys", "has", "size"}
                   /\ sh.kind = "set" => sh.data = Str("v1")
                   /\ sh.kind \in {"remove", "get", "has"} => sh.key = KeySeq[1]}

IssueKeys == \E sh \in KeysShapes : Issue(sh.kind, sh.key, sh.data)

NextKeys ==
  \/ IssueKeys
  \/ OpenSuccess
  \/ OpenError
  \/ \E n \in 1..MaxOps : Serve(n)
  \/ \E n \in 1..MaxOps : ServeError(n)

SpecKeys == Init /\ [][NextKeys]_vars

\* writes of null and undefined, with the reads that observe them
AbsenceShapes ==
  {sh \in Shapes : /\ sh.key = KeySeq[1]
                   /\ sh.kind \in {"get", "set", "keys"}
                   /\ sh.data \in {JUndef, JNull, Str("v1")}}

IssueAbsence == \E sh \in AbsenceShapes : Issue(sh.kind, sh.key, sh.data)

NextAbsence ==
  \/ IssueAbsence
  \/ OpenSuccess
  \/ OpenError
  \/ \E n \in 1..MaxOps : Serve(n)
  \/ \E n \in 1..MaxOps : ServeError(n)

SpecAbsence == Init /\ [][NextAbsence]_vars

\* the same calls made on two instances: this one, in primary mode, and a
\* second one in fallback mode whose storage is ls; the calls are made one
\* after the other, each once the previous one has settled, and the records
\* of the two instances alternate in ops
EquivShapes ==
  {sh \in Shapes : /\ sh.key = KeySeq[1]
                   /\ sh.data \in {JUndef, JNull, Str("v1")}}

\* the second instance runs the call as CallResult does once fallback is set
TwinCall(os, kind, key, data, subscribe) ==
  LET r == LsResult(ls, kind, key)
      o == NewOp(kind, key, data, "fallback", r.res, r.err)
      u == [o EXCEPT !.sub = SubCount(os) + 1, !.after = SettledSet(os)]
  IN IF subscribe THEN OfEmit(u) ELSE o

CallBoth(kind, key, data, subscribe) ==
  /\ Len(ops) + 2 <= 2 * MaxOps
  /\ openReq = "success" /\ txs = <<>>
  /\ LET c == CallResult(kind, key, data)
         called == Append(ops, c.op)
         s == IF subscribe THEN SubscribeResult(called, Len(called))
              ELSE [ops |-> called, waiters |-> waiters, txs |-> txs]
     IN /\ ops' = Append(s.ops, TwinCall(s.ops, kind, key, data, subscribe))
        /\ waiters' = s.waiters
        /\ txs' = s.txs
        /\ ls' = LsApply(ls, kind, key, data)
  /\ UNCHANGED <<env, store, opens, openReq, database, fallback, errs>>

InitEquiv ==
  /\ Init
  /\ env.variant = "current" /\ env.lsUsable /\ ~env.openThrew
  /\ store = [k \in Keys |-> Absent]

IssueBoth == \E sh \in EquivShapes : \E subscribe \in BOOLEAN :
               CallBoth(sh.kind, sh.key, sh.data, subscribe)

NextEquiv ==
  \/ IssueBoth
  \/ OpenSuccess
  \/ \E n \in 1..MaxOps : Serve(n)

SpecEquiv == InitEquiv /\ [][NextEquiv]_vars

\* values another API may have stored, unwrapped, in the object store
ForeignData ==
  {JUndef, JNull, Str("v1"), JEmpty, JZero, JTrue, JFalse, JArr, JObj,
   Wrap(Str("v1")), Wrap(JNull)}

\* state after construction when k1 was written with the native API
InitForeign ==
  /\ env \in [variant : Variants, idbV2 : BOOLEAN, lsUsable : {TRUE}, openThrew : {FALSE}]
  /\ store \in {[k \in Keys |-> IF k = KeySeq[1] THEN x ELSE Absent] : x \in ForeignData}
  /\ ls = [k \in Keys |-> NoText]
  /\ opens = 1
  /\ openReq = "pending"
  /\ database = [buf |-> <<>>, errored |-> FALSE]
  /\ fallback = FALSE
  /\ waiters = <<>>
  /\ txs = <<>>
  /\ ops = <<>>
  /\ errs = 0

\* reads and removals of the foreign entry; nothing is written by the library
ForeignShapes ==
  {sh \in Shapes : sh.kind \in {"get", "has", "remove"}}

IssueForeign == \E sh \in ForeignShapes : Issue(sh.kind, sh.key, sh.data)

NextForeign ==
  \/ IssueForeign
  \/ OpenSuccess
  \/ OpenError
  \/ \E n \in 1..MaxOps : Serve(n)
  \/ \E n \in 1..MaxOps : ServeError(n)

SpecForeign == InitForeign /\ [][NextForeign]_vars

\* writes over the foreign entry, and reads of what they leave
ForeignWriteShapes ==
  {sh \in Shapes : /\ sh.key = KeySeq[1]
                   /\ sh.kind \in {"set", "get", "has"}
                   /\ sh.kind = "set" => sh.data = Str("v2")}

IssueForeignWrite == \E sh \in ForeignWriteShapes : Issue(sh.kind, sh.key, sh.data)

NextForeignWrite ==
  \/ IssueForeignWrite
  \/ OpenSuccess
  \/ OpenError
  \/ \E n \in 1..MaxOps : Serve(n)
  \/ \E n \in 1..MaxOps : ServeError(n)

SpecForeignWrite == InitForeign /\ [][NextForeignWrite]_vars

\* values stored, then read with each schema and without one
SchemaShapes ==
  {sh \in [kind : {"get", "set"}, key : {KeySeq[1]}, data : {JUndef, Str("v1"), JObj},
            schema : Schemas \cup {NoSchema}] :
     /\ (sh.kind = "set") = (sh.data # JUndef)
     /\ sh.kind = "set" => sh.schema = NoSchema}

IssueSchema == \E sh \in SchemaShapes : IssueService(sh.kind, sh.key, sh.data, sh.schema, FALSE)

NextSchema ==
  \/ IssueSchema
  \/ OpenSuccess
  \/ OpenError
  \/ \E n \in 1..MaxOps : Serve(n)
  \/ \E n \in 1..MaxOps : ServeError(n)

SpecSchema == Init /\ [][NextSchema]_vars

\* setItemSubscribe, removeItemSubscribe and clearSubscribe, with the reads
\* and writes of a caller that subscribes itself
ForgetShapes ==
  {sh \in [kind : {"get", "set", "remove", "clear"}, key : {KeySeq[1]},
            data : {JUndef, Str("v1")}, forget : BOOLEAN] :
     /\ (sh.kind = "set") = (sh.data # JUndef)
     /\ sh.forget => sh.kind \in WriteKinds
     /\ sh.kind \in {"remove", "clear"} => sh.forget}

IssueForget == \E sh \in ForgetShapes : IssueService(sh.kind, sh.key, sh.data, NoSchema, sh.forget)

NextForget ==
  \/ IssueForget
  \/ OpenSuccess
  \/ OpenError
  \/ \E n \in 1..MaxOps : Serve(n)
  \/ \E n \in 1..MaxOps : ServeError(n)

SpecForget == Init /\ [][NextForget]_vars

\* a value overwritten while it is read, tested and listed
AtomicShapes ==
  {sh \in Shapes : /\ sh.key = KeySeq[1]
                   /\ sh.kind \in {"set", "get", "has", "keys"}
                   /\ sh.kind = "set" => sh.data \in {Str("v1"), Str("v2")}}

IssueAtomic == \E sh \in AtomicShapes : Issue(sh.kind, sh.key, sh.data)

NextAtomic ==
  \/ IssueAtomic
  \/ OpenSuccess
  \/ OpenError
  \/ \E n \in 1..MaxOps : Serve(n)
  \/ \E n \in 1..MaxOps : ServeError(n)

SpecAtomic == Init /\ [][NextAtomic]_vars

\* writes that are called and subscribed in separate statements, possibly
\* in another order or never, with reads of the key they concern
LazyShapes ==
  {sh \in Shapes : /\ sh.key = KeySeq[1]
                   /\ sh.kind \in {"set", "remove", "clear", "get"}
                   /\ sh.kind = "set" => sh.data = Str("v1")}

CallLazy == \E sh \in LazyShapes : Call(sh.kind, sh.key, sh.data)

SubscribeLazy == \E n \in 1..MaxOps : Subscribe(n)

NextLazy ==
  \/ CallLazy
  \/ SubscribeLazy
  \/ OpenSuccess
  \/ OpenError
  \/ \E n \in 1..MaxOps : Serve(n)
  \/ \E n \in 1..MaxOps : ServeError(n)

SpecLazy == Init /\ [][NextLazy]_vars

\* two instances constructed with different prefixes: this one, whose
\* database is named after its prefix, and a second one in fallback mode.
\* A LocalStorageDatabase reads and writes window.localStorage under the key
\* it is given, so the storage of the second instance is ls as well; its
\* operations are recorded with the path "other"
PrefixShapes ==
  {sh \in Shapes : /\ sh.key = KeySeq[1]
                   /\ sh.kind = "set" => sh.data = Str("v1")}

OtherCall(os, kind, key, data) ==
  [TwinCall(os, kind, key, data, TRUE) EXCEPT !.path = "other"]

IssueOther(kind, key, data) ==
  /\ Len(ops) < MaxOps
  /\ ops' = Append(ops, OtherCall(ops, kind, key, data))
  /\ ls' = LsApply(ls, kind, key, data)
  /\ UNCHANGED <<env, store, opens, openReq, database, fallback, waiters, txs, errs>>

IssuePrefix ==
  \E sh \in PrefixShapes :
    \/ Issue(sh.kind, sh.key, sh.data)
    \/ IssueOther(sh.kind, sh.key, sh.data)

NextPrefix ==
  \/ IssuePrefix
  \/ OpenSuccess
  \/ OpenError
  \/ \E n \in 1..MaxOps : Serve(n)
  \/ \E n \in 1..MaxOps : ServeError(n)

SpecPrefix == Init /\ [][NextPrefix]_vars

TypeOK ==
  /\ Len(ops) <= 2 * MaxOps
  /\ errs <= MaxErrors
  /\ openReq \in {"none", "pending", "success", "error"}
  /\ database.buf \in {<<>>, <<1>>}

\* ------------------------------------------------------- claims
OpIds == 1..Len(ops)

\* operation o changes what is stored under key k
Writes(o, k) ==
  \/ o.kind = "set" /\ o.key = k /\ ~IsNullish(o.data)
  \/ o.kind = "remove" /\ o.key = k
  \/ o.kind = "clear"

\* o is one of the mutating operations and concerns key k
Mutates(o, k) ==
  \/ o.kind \in {"set", "remove"} /\ o.key = k
  \/ o.kind = "clear"

\* i was subscribed first, and j before i had settled
Overlap(i, j) ==
  /\ 0 < ops[i].sub
  /\ ops[i].sub < ops[j].sub
  /\ i \notin ops[j].after

\* every other operation that changes k had settled before i was subscribed
NoThirdWriter(i, j, k) ==
  \A w \in OpIds \ {i, j} : Writes(ops[w], k) => w \in ops[i].after

\* nothing is left for the engine to deliver
Quiescent == openReq # "pending" /\ txs = <<>>

\* C1: two setItem(k, v1), setItem(k, v2) subscribed one after the other
\* without waiting, both ended by success events: a getItem(k) subscribed
\* after both have settled yields v2.
C1_ConcurrentWrites ==
  \A i, j, g \in OpIds :
    ( /\ ops[i].kind = "set" /\ ops[j].kind = "set" /\ ops[g].kind = "get"
      /\ ops[i].key = ops[j].key /\ ops[g].key = ops[j].key
      /\ ~IsNullish(ops[i].data) /\ ~IsNullish(ops[j].data)
      /\ Overlap(i, j)
      /\ Succeeded(ops[i]) /\ Succeeded(ops[j]) /\ Succeeded(ops[g])
      /\ {i, j} \subseteq ops[g].after
      /\ NoThirdWriter(i, j, ops[j].key) )
    => ops[g].res = ValRes(ops[j].data)

C1_Witness ==
  \E i, j, g \in OpIds :
    /\ ops[i].kind = "set" /\ ops[j].kind = "set" /\ ops[g].kind = "get"
    /\ ops[i].key = ops[j].key /\ ops[g].key = ops[j].key
    /\ ops[i].data = Str("v1") /\ ops[j].data = Str("v2")
    /\ Overlap(i, j)
    /\ Succeeded(ops[i]) /\ Succeeded(ops[j]) /\ Succeeded(ops[g])
    /\ {i, j} \subseteq ops[g].after
    /\ ops[g].res = ValRes(Str("v2"))

\* what is stored under the key once o has run after a state holding prev
IntentOf(o, prev) ==
  CASE o.kind = "set" /\ ~IsNullish(o.data) -> Wrap(o.data)
    [] o.kind = "set" /\ IsNullish(o.data) -> prev
    [] OTHER -> Absent

NoWrite(o) == o.kind = "set" /\ IsNullish(o.data)

\* C2: for two of setItem, removeItem, clear on the same key, subscribed one
\* after the other without waiting, once both have succeeded the key holds
\* what the later-subscribed operation produces.
C2_LaterWins ==
  \A i, j \in OpIds : \A k \in Keys :
    ( /\ Mutates(ops[i], k) /\ Mutates(ops[j], k)
      /\ ~(NoWrite(ops[i]) /\ NoWrite(ops[j]))
      /\ ops[i].path # "fallback" /\ ops[j].path # "fallback"
      /\ Overlap(i, j)
      /\ Succeeded(ops[i]) /\ Succeeded(ops[j])
      /\ NoThirdWriter(i, j, k) )
    => store[k] = IntentOf(ops[j], IntentOf(ops[i], Absent))

\* C3: every subscribed operation settles: once the open request has ended
\* and no request is in flight, no subscribed operation is still pending.
C3_AllSettle ==
  Quiescent => \A i \in OpIds : Subscribed(ops[i]) => Settled(ops[i])

\* C4: a subscription observes nothing yet, or one value followed by
\* completion, or one failure; never more.
C4_ExactlyOnce ==
  \A i \in OpIds :
    \/ ops[i].nexts = 0 /\ ops[i].completes = 0 /\ ops[i].errs = 0
    \/ ops[i].nexts = 1 /\ ops[i].completes = 1 /\ ops[i].errs = 0
    \/ ops[i].nexts = 0 /\ ops[i].completes = 0 /\ ops[i].errs = 1

\* a cursor walk that got several success events, and one that got a
\* success event and then an error event
C4_Witness ==
  \E i, j \in OpIds :
    /\ ops[i].kind = "keys" /\ ops[i].acc # {} /\ Succeeded(ops[i])
    /\ ops[i].res = KeysRes(ops[i].acc)
    /\ ops[j].kind = "keys" /\ ops[j].acc # {} /\ ops[j].errs = 1

\* C5: where localStorage is usable, an operation issued after the open
\* failed (a synchronous throw or an error event) is delegated to the
\* fallback and succeeds.
C5_FallbackAfterOpenFailure ==
  [][ (env.lsUsable /\ Len(ops') > Len(ops) /\ openReq \in {"none", "error"})
        => /\ ops'[Len(ops')].path = "fallback"
           /\ Succeeded(ops'[Len(ops')]) ]_vars

\* C6: where localStorage is usable, no operation settles with the
\* connection error.
C6_NoConnectionError ==
  env.lsUsable => \A i \in OpIds : ops[i].err # "connection"

\* C7: when the open request failed and the fallback could not be
\* constructed, every subscribed operation has settled with a failure.
C7_FailLoudly ==
  (openReq = "error" /\ ~env.lsUsable /\ Quiescent)
    => \A i \in OpIds : Subscribed(ops[i]) => ops[i].errs = 1

\* C8: once the fallback reference is set it stays set, every operation
\* issued from then on is delegated to it, and nothing opens a transaction
\* on, or re-opens, the embedded database.
C8_FallbackPermanent ==
  [][ fallback
        => /\ fallback'
           /\ txs' = <<>>
           /\ openReq' = openReq /\ opens' = opens /\ database' = database
           /\ Len(ops') > Len(ops) => ops'[Len(ops')].path = "fallback" ]_vars

C8_Witness ==
  /\ fallback
  /\ openReq = "error"
  /\ \E i, j \in OpIds : /\ ops[i].path = "idb" /\ ops[i].listening
                         /\ ops[j].path = "fallback" /\ Succeeded(ops[j])

\* C9: one open request per instance; the connection handle is published at
\* most once, never replaced afterwards, and every transaction is opened on it.
C9_OneConnection ==
  /\ [](/\ opens <= 1
        /\ Len(database.buf) <= 1
        /\ \A n \in 1..Len(txs) : database.buf = <<txs[n].db>>)
  /\ [][ /\ opens' = opens
         /\ openReq # "pending" => openReq' = openReq
         /\ database.buf # <<>> => database' = database ]_vars

C9_Witness ==
  /\ database.buf = <<1>>
  /\ Len(txs) >= 2
  /\ \E i \in OpIds : ops[i].path = "idb" /\ Succeeded(ops[i])

\* the entry getItem reads is absent
NoEntry(o) ==
  IF o.path = "fallback" THEN ls[o.key] = NoText ELSE store[o.key] = Absent

\* C10: a getItem(k) that settles while k holds no entry, otherwise than by
\* an error event of the engine, succeeds with null.
C10_AbsentIsNull ==
  [][ \A i \in 1..Len(ops') :
        ( /\ ops'[i].kind = "get"
          /\ Settled(ops'[i])
          /\ (i > Len(ops) \/ ~Settled(ops[i]))
          /\ ops'[i].err \notin {"connection", "request"}
          /\ NoEntry(ops'[i]) )
        => /\ Succeeded(ops'[i])
           /\ ops'[i].res = ValRes(JNull) ]_vars

\* a null read from the object store after the key was written and removed
C10_Witness ==
  \E i, j, g \in OpIds :
    /\ ops[i].kind = "set" /\ Succeeded(ops[i]) /\ ~IsNullish(ops[i].data)
    /\ ops[j].kind \in {"remove", "clear"} /\ Succeeded(ops[j]) /\ i \in ops[j].after
    /\ ops[g].kind = "get" /\ Succeeded(ops[g]) /\ j \in ops[g].after
    /\ ops[g].key = ops[i].key /\ ops[g].path = "idb"
    /\ ops[g].res = ValRes(JNull)

\* every other setItem, removeItem or clear that concerns k had settled
\* before s was subscribed
OnlyWriter(s, g, k) ==
  \A w \in OpIds \ {s, g} : Mutates(ops[w], k) => w \in ops[s].after

\* C11: a setItem(k, v) with v not null, then, once it has succeeded, a
\* getItem(k) that succeeds: the value read equals v, in the embedded
\* database (both versions) and in the fallback.
C11_RoundTrip ==
  \A s, g \in OpIds :
    ( /\ ops[s].kind = "set" /\ ops[g].kind = "get" /\ ops[g].key = ops[s].key
      /\ ~IsNullish(ops[s].data)
      /\ Succeeded(ops[s]) /\ Succeeded(ops[g])
      /\ s \in ops[g].after
      /\ OnlyWriter(s, g, ops[s].key) )
    => ops[g].res = ValRes(ops[s].data)

\* an object with a property named 'value' read back from the object store,
\* after a falsy value was stored and read back
C11_Witness ==
  \E z, s, g \in OpIds :
    /\ ops[z].kind = "set" /\ ops[z].data \in {JEmpty, JZero, JFalse} /\ Succeeded(ops[z])
    /\ ops[s].kind = "set" /\ ops[s].data = Wrap(Str("v1")) /\ ops[s].path = "idb"
    /\ Succeeded(ops[s]) /\ z \in ops[s].after
    /\ ops[g].kind = "get" /\ Succeeded(ops[g]) /\ s \in ops[g].after
    /\ ops[g].res = ValRes(Wrap(Str("v1")))

\* C12: setItem(k, v1), then once it has succeeded setItem(k, v2), both not
\* null: the second write, unless an engine error event ends it, succeeds
\* (no write ever fails because the key exists), and a getItem(k) that
\* follows it yields v2.
C12_Overwrite ==
  /\ \A j \in OpIds : ops[j].err # "constraint"
  /\ \A i, j \in OpIds :
       ( /\ ops[i].kind = "set" /\ ops[j].kind = "set" /\ ops[i].key = ops[j].key
         /\ ~IsNullish(ops[i].data) /\ ~IsNullish(ops[j].data)
         /\ Succeeded(ops[i]) /\ i \in ops[j].after
         /\ Settled(ops[j]) /\ ops[j].err # "request" )
       => /\ Succeeded(ops[j])
          /\ \A g \in OpIds :
               ( /\ ops[g].kind = "get" /\ ops[g].key = ops[j].key
                 /\ Succeeded(ops[g]) /\ j \in ops[g].after
                 /\ OnlyWriter(j, g, ops[j].key) )
               => ops[g].res = ValRes(ops[j].data)

\* the second write found the entry of the first in the object store
C12_Witness ==
  \E i, j, g \in OpIds :
    /\ ops[i].kind = "set" /\ ops[i].data = Str("v1") /\ Succeeded(ops[i])
    /\ ops[j].kind = "set" /\ ops[j].data = Str("v2") /\ Succeeded(ops[j])
    /\ ops[j].path = "idb" /\ ops[j].key = ops[i].key /\ i \in ops[j].after
    /\ ops[g].kind = "get" /\ ops[g].key = ops[j].key /\ j \in ops[g].after
    /\ ops[g].res = ValRes(Str("v2"))

\* C13: after a setItem(k, null) or setItem(k, undefined) has succeeded,
\* whatever the store held, a getItem(k) that follows (and is not ended by
\* an engine error event) succeeds with null, and a keys() that follows does
\* not list k.
C13_AbsenceWriteResult ==
  \A s, r \in OpIds :
    ( /\ ops[s].kind = "set" /\ IsNullish(ops[s].data) /\ Settled(ops[s])
      /\ ops[r].kind \in {"get", "keys"} /\ ops[r].key = ops[s].key
      /\ s \in ops[r].after
      /\ Settled(ops[r]) /\ ops[r].err \notin {"request", "connection"}
      /\ OnlyWriter(s, r, ops[s].key) )
    => /\ Succeeded(ops[s]) /\ Succeeded(ops[r])
       /\ ops[r].kind = "get" => ops[r].res = ValRes(JNull)
       /\ ops[r].kind = "keys" => ops[s].key \notin ops[r].res.ks

\* C14: calling setItem(k, null) or setItem(k, undefined) changes neither
\* the object store nor the fallback's storage.
C14_AbsenceWriteFrame ==
  [][ ( /\ Len(ops') > Len(ops)
        /\ ops'[Len(ops')].kind = "set"
        /\ IsNullish(ops'[Len(ops')].data) )
      => (store' = store /\ ls' = ls) ]_vars

\* operation i succeeds in this step
NowSucceeds(i) ==
  /\ i \in 1..Len(ops')
  /\ Succeeded(ops'[i])
  /\ (i > Len(ops) \/ ~Settled(ops[i]))

\* C15: a removeItem(k) not ended by an engine error event succeeds; when
\* it succeeds k holds no entry and every other key holds what it held (so
\* on a store without k nothing changes); a getItem(k) that follows yields null.
C15_RemoveItem ==
  /\ [](\A i \in OpIds :
          (ops[i].kind = "remove" /\ Settled(ops[i]) /\ ops[i].err \notin {"request", "connection"})
            => Succeeded(ops[i]))
  /\ [](\A i, g \in OpIds :
          ( /\ ops[i].kind = "remove" /\ Succeeded(ops[i])
            /\ ops[g].kind = "get" /\ ops[g].key = ops[i].key /\ Succeeded(ops[g])
            /\ i \in ops[g].after
            /\ OnlyWriter(i, g, ops[i].key) )
          => ops[g].res = ValRes(JNull))
  /\ [][ \A i \in 1..Len(ops') :
           (ops'[i].kind = "remove" /\ NowSucceeds(i))
             => IF ops'[i].path = "fallback"
                  THEN ls' = [ls EXCEPT ![ops'[i].key] = NoText] /\ store' = store
                  ELSE store' = [store EXCEPT ![ops'[i].key] = Absent] /\ ls' = ls ]_vars

\* k1 removed twice from an object store that holds an entry under k2
C15_Witness ==
  \E s, i, j \in OpIds :
    /\ ops[s].kind = "set" /\ ops[s].key = KeySeq[2] /\ ops[s].path = "idb" /\ Succeeded(ops[s])
    /\ ops[i].kind = "remove" /\ ops[i].key = KeySeq[1] /\ Succeeded(ops[i]) /\ s \in ops[i].after
    /\ ops[j].kind = "remove" /\ ops[j].key = KeySeq[1] /\ Succeeded(ops[j]) /\ i \in ops[j].after
    /\ store[KeySeq[1]] = Absent /\ store[KeySeq[2]] = Wrap(Str("v1"))

\* every setItem other than c and r had settled before c was subscribed
NoSetSince(c, r) ==
  \A w \in OpIds \ {c, r} : ops[w].kind = "set" => w \in ops[c].after

\* C16: when clear() succeeds the store holds no entry, whether or not it
\* held one; until a setItem is issued, a getItem that follows yields null,
\* keys() the empty list and size 0.
C16_Clear ==
  /\ [][ \A i \in 1..Len(ops') :
           (ops'[i].kind = "clear" /\ NowSucceeds(i))
             => IF ops'[i].path = "fallback"
                  THEN ls' = [k \in Keys |-> NoText]
                  ELSE store' = [k \in Keys |-> Absent] ]_vars
  /\ [](\A c, r \in OpIds :
          ( /\ ops[c].kind = "clear" /\ Succeeded(ops[c])
            /\ ops[r].kind \in {"get", "keys", "size"} /\ Succeeded(ops[r])
            /\ c \in ops[r].after
            /\ NoSetSince(c, r) )
          => ops[r].res = CASE ops[r].kind = "get" -> ValRes(JNull)
                            [] ops[r].kind = "keys" -> KeysRes({})
                            [] ops[r].kind = "size" -> NumRes(0))

\* an object store that holds an entry cleared, then measured
C16_Witness ==
  \E s, c, r \in OpIds :
    /\ ops[s].kind = "set" /\ ops[s].key = KeySeq[2] /\ ops[s].path = "idb" /\ Succeeded(ops[s])
    /\ ops[c].kind = "clear" /\ Succeeded(ops[c]) /\ s \in ops[c].after
    /\ ops[r].kind = "size" /\ Succeeded(ops[r]) /\ c \in ops[r].after
    /\ ops[r].res = NumRes(0)
    /\ store = [k \in Keys |-> Absent]

\* the key-to-value content a caller can read back from each backend
ContentOfStore(st) ==
  [k \in Keys |-> IF st[k] = Absent THEN Absent ELSE Unwrap(st[k])]

ContentOfStorage(l) ==
  [k \in Keys |-> IF l[k] = NoText THEN Absent
                  ELSE IF ParseOk(l[k]) THEN Parse(l[k]) ELSE [d |-> 0, b |-> "invalid"]]

\* C17: the same sequence of calls made on an instance in primary mode and
\* on an instance in fallback mode: once the calls have settled, every call
\* that succeeded on the first succeeded with the same result on the second,
\* and both hold the same key-to-value content.
C17_BackendEquivalence ==
  (txs = <<>>) =>
    /\ \A i \in OpIds :
         (i % 2 = 1 /\ i + 1 \in OpIds /\ Succeeded(ops[i]))
           => (Succeeded(ops[i + 1]) /\ ops[i + 1].res = ops[i].res)
    /\ ContentOfStore(store) = ContentOfStorage(ls)

\* C18: keys() on the object store yields, once, exactly the keys that hold
\* an entry when its read-only transaction ends, a state no concurrent
\* write has changed since the transaction began: a key written before and
\* not removed since is listed, a removed key is not.
C18_KeysSnapshot ==
  /\ [][ \A i \in 1..Len(ops') :
           (ops'[i].kind = "keys" /\ ops'[i].path = "idb" /\ NowSucceeds(i))
             => /\ ops'[i].res = KeysRes(Present(store))
                /\ store' = store
                /\ ops'[i].nexts = 1 ]_vars
  /\ [](\A w, r \in OpIds :
          ( /\ ops[r].kind = "keys" /\ ops[r].path = "idb" /\ Succeeded(ops[r])
            /\ Writes(ops[w], ops[w].key) /\ ops[w].kind # "clear" /\ Succeeded(ops[w])
            /\ w \in ops[r].after
            /\ OnlyWriter(w, r, ops[w].key) )
          => (ops[w].key \in ops[r].res.ks) = (ops[w].kind = "set"))
  /\ [](\A r \in OpIds : \A t \in 1..Len(txs) :
          (ops[r].kind = "keys" /\ txs[t].op = r) => ops[r].acc \subseteq Present(store))

\* a cursor walk over both keys, finished while a removeItem issued during
\* the walk was waiting
C18_Witness ==
  \E s, r, w \in OpIds :
    /\ ~env.idbV2
    /\ ops[s].kind = "set" /\ ops[s].key = KeySeq[2] /\ Succeeded(ops[s])
    /\ ops[r].kind = "keys" /\ ops[r].path = "idb" /\ Succeeded(ops[r]) /\ s \in ops[r].after
    /\ ops[r].res = KeysRes({KeySeq[1], KeySeq[2]})
    /\ ops[w].kind = "remove" /\ Overlap(r, w) /\ Succeeded(ops[w])

NowSettles(i) ==
  /\ i \in 1..Len(ops')
  /\ Settled(ops'[i])
  /\ (i > Len(ops) \/ ~Settled(ops[i]))

\* C20: a getItem(k) on the object store that settles, otherwise than by an
\* error event of the engine, while k holds a value x stored by another API
\* (or nothing) succeeds with x itself, or with null when x is undefined or
\* null (or there is no entry).
C20_ForeignEntries ==
  [][ \A i \in 1..Len(ops') :
        ( /\ ops'[i].kind = "get" /\ ops'[i].path = "idb"
          /\ NowSettles(i)
          /\ ops'[i].err \notin {"request", "connection"} )
        => /\ Succeeded(ops'[i])
           /\ ops'[i].res = ValRes(IF store[ops'[i].key] \in {Absent, JUndef, JNull}
                                     THEN JNull ELSE store[ops'[i].key]) ]_vars

\* C21: a setItem(k, v), v not null, on a key that holds an entry stored by
\* another API, whatever its value, with and without getKey: unless an
\* engine error event or the connection ends it, it succeeds; it never
\* fails on an insert over the existing key.
C21_WriteOverForeign ==
  \A i \in OpIds :
    ( /\ ops[i].kind = "set" /\ ~IsNullish(ops[i].data)
      /\ Settled(ops[i]) /\ ops[i].err \notin {"request", "connection"} )
    => Succeeded(ops[i])

\* the value the library stored under the key getItem reads
StoredValue(o) ==
  IF o.path = "fallback" THEN Parse(ls[o.key]) ELSE Field(store[o.key])

\* a getItem with a schema settles in this step, not by an error event of
\* the engine
SchemaReadSettles(i) ==
  /\ NowSettles(i)
  /\ ops'[i].kind = "get" /\ ops'[i].schema \in Schemas
  /\ ops'[i].err \notin {"request", "connection"}

\* C22: getItem(k, {schema}) with a well-formed schema on a key that holds
\* a value: when the validator rejects the value the read fails with
\* 'JSON invalid' and delivers no value; when it accepts the value the read
\* yields the stored value.
C22_SchemaVerdict ==
  [][ \A i \in 1..Len(ops') :
        ( /\ SchemaReadSettles(i)
          /\ ~SchemaMalformed(ops'[i].schema)
          /\ ~NoEntry(ops'[i]) )
        => IF Validate(StoredValue(ops'[i]), ops'[i].schema)
             THEN Succeeded(ops'[i]) /\ ops'[i].res = ValRes(StoredValue(ops'[i]))
             ELSE /\ ops'[i].errs = 1 /\ ops'[i].err = "validation"
                  /\ ops'[i].nexts = 0 /\ ops'[i].completes = 0 ]_vars

\* one stored object rejected by a schema and accepted by another
C22_Witness ==
  \E s, a, b \in OpIds :
    /\ ops[s].kind = "set" /\ ops[s].data = JObj /\ ops[s].path = "idb" /\ Succeeded(ops[s])
    /\ ops[a].kind = "get" /\ ops[a].schema = "string" /\ s \in ops[a].after
    /\ ops[a].err = "validation" /\ ops[a].nexts = 0
    /\ ops[b].kind = "get" /\ ops[b].schema = "object" /\ s \in ops[b].after
    /\ Succeeded(ops[b]) /\ ops[b].res = ValRes(JObj)

\* C23: getItem(k, {schema}) on a key that holds no entry succeeds with
\* null for every schema, a malformed one included: nothing is validated.
C23_AbsentNotValidated ==
  [][ \A i \in 1..Len(ops') :
        (SchemaReadSettles(i) /\ NoEntry(ops'[i]))
        => /\ Succeeded(ops'[i])
           /\ ops'[i].res = ValRes(JNull) ]_vars

\* null read from the object store with a malformed and with a well-formed schema
C23_Witness ==
  \E a, b \in OpIds :
    /\ ops[a].kind = "get" /\ ops[a].schema = "malformed" /\ ops[a].path = "idb"
    /\ Succeeded(ops[a]) /\ ops[a].res = ValRes(JNull)
    /\ ops[b].kind = "get" /\ ops[b].schema = "object" /\ ops[b].path = "idb"
    /\ Succeeded(ops[b]) /\ ops[b].res = ValRes(JNull)

\* C24: getItem(k, {schema}) with a malformed schema on a key that holds a
\* value fails, with an error other than the one of a rejected value.
C24_MalformedSchema ==
  [][ \A i \in 1..Len(ops') :
        ( /\ SchemaReadSettles(i)
          /\ SchemaMalformed(ops'[i].schema)
          /\ ~NoEntry(ops'[i]) )
        => /\ ops'[i].errs = 1 /\ ops'[i].nexts = 0 /\ ops'[i].completes = 0
           /\ ops'[i].err = "schema" ]_vars

\* the same stored value read with a malformed schema and with a schema
\* that rejects it
C24_Witness ==
  \E a, b \in OpIds :
    /\ ops[a].kind = "get" /\ ops[a].schema = "malformed" /\ ops[a].err = "schema"
    /\ ops[b].kind = "get" /\ ops[b].schema = "object" /\ ops[b].err = "validation"
    /\ ops[a].key = ops[b].key /\ ops[a].path = "idb" /\ ops[b].path = "idb"

\* what a getItem(k) issued now would read
Visible(k) ==
  IF env.variant = "current" /\ fallback
    THEN ContentOfStorage(ls)[k] ELSE ContentOfStore(store)[k]

\* C25: setItemSubscribe(k, v), removeItemSubscribe(k), clearSubscribe(),
\* the last change issued for k: once the engine has nothing left to
\* deliver, and unless the operation itself failed, a getItem(k) reads v,
\* null, null respectively.
C25_FireAndForget ==
  \A f \in OpIds :
    ( /\ ops[f].forget /\ Mutates(ops[f], KeySeq[1])
      /\ ~IsNullish(ops[f].data) \/ ops[f].kind # "set"
      /\ Quiescent
      /\ ops[f].errs = 0
      /\ \A w \in OpIds \ {f} : Mutates(ops[w], KeySeq[1]) => ops[w].sub < ops[f].sub )
    => Visible(KeySeq[1]) = IF ops[f].kind = "set" THEN ops[f].data ELSE Absent

\* the mode the contract gives each operation's transaction
ContractMode(kind) == IF kind \in ReadKinds THEN "readonly" ELSE "readwrite"

\* C26: at any time an operation has at most one transaction, read-only for
\* getItem, keys, has and size and read-write for setItem, removeItem and
\* clear; the transaction an operation holds is never exchanged for
\* another one, and an operation that has settled, or runs in the fallback,
\* holds none.
C26_TransactionDiscipline ==
  /\ [](\A n \in 1..Len(txs) :
          /\ txs[n].mode = ContractMode(ops[txs[n].op].kind)
          /\ ops[txs[n].op].path = "idb" /\ ~Settled(ops[txs[n].op])
          /\ \A m \in 1..Len(txs) : txs[m].op = txs[n].op => m = n)
  /\ [][ \A m \in 1..Len(txs') : \A n \in 1..Len(txs) :
           txs'[m].op = txs[n].op
             => (txs'[m].mode = txs[n].mode /\ txs'[m].db = txs[n].db) ]_vars

\* a setItem has made its lookup and placed its write, not yet done
WritePending(t) == t.req \in {"add", "put"}

\* C27: a setItem's write is placed in the read-write transaction of its
\* lookup, as an insert exactly when the key holds no entry; from the lookup
\* to the write no other operation changes the store, so the choice is
\* still right when the write runs.
C27_LookupAndWrite ==
  /\ [](\A n \in 1..Len(txs) :
          WritePending(txs[n])
            => /\ ops[txs[n].op].kind = "set" /\ txs[n].mode = "readwrite"
               /\ (txs[n].req = "add") = (store[txs[n].key] = Absent))
  /\ [][ \A n \in 1..Len(txs) :
           WritePending(txs[n])
             => \/ store' = store
                \/ /\ store' = [store EXCEPT ![txs[n].key] = txs[n].val]
                   /\ Succeeded(ops'[txs[n].op]) ]_vars
  /\ [][ \A n \in 1..Len(txs') :
           ( /\ WritePending(txs'[n])
             /\ ~\E m \in 1..Len(txs) : txs[m].op = txs'[n].op /\ WritePending(txs[m]) )
             => /\ \E m \in 1..Len(txs) :
                     /\ txs[m].op = txs'[n].op
                     /\ txs[m].req \in {"get", "getKey"} /\ txs[m].mode = "readwrite"
                     /\ txs[m].db = txs'[n].db
                /\ store' = store ]_vars

\* two setItem issued together, the second one's lookup finding the entry
\* the first one inserted
C27_Witness ==
  \E i, j \in OpIds : \E n \in 1..Len(txs) :
    /\ ops[i].kind = "set" /\ ops[j].kind = "set" /\ Overlap(i, j)
    /\ Succeeded(ops[i]) /\ txs[n].op = j /\ txs[n].req = "put"
    /\ store[txs[n].key] = Wrap(ops[i].data)

\* C28: k holds v1, written by a setItem that has succeeded; a getItem(k),
\* has(k) or keys() issued together with a setItem(k, v2), in either order,
\* reads v1 or v2, true, and a list that holds k: never an absent entry.
C28_AtomicVisibility ==
  \A s, w, r \in OpIds :
    ( /\ ops[s].kind = "set" /\ ~IsNullish(ops[s].data) /\ Succeeded(ops[s])
      /\ ops[w].kind = "set" /\ ~IsNullish(ops[w].data) /\ ops[w].key = ops[s].key
      /\ ops[r].kind \in {"get", "has", "keys"} /\ ops[r].key = ops[s].key
      /\ Succeeded(ops[r])
      /\ s \in ops[w].after /\ s \in ops[r].after
      /\ \A x \in OpIds \ {s, w, r} : Mutates(ops[x], ops[s].key) => x \in ops[s].after )
    => CASE ops[r].kind = "get" -> ops[r].res \in {ValRes(ops[s].data), ValRes(ops[w].data)}
         [] ops[r].kind = "has" -> ops[r].res = ValRes(JTrue)
         [] ops[r].kind = "keys" -> ops[s].key \in ops[r].res.ks

\* the read was issued first and the write before the read had settled
C28_Witness ==
  \E s, w, r \in OpIds :
    /\ ops[s].kind = "set" /\ ops[s].data = Str("v1") /\ Succeeded(ops[s])
    /\ ops[w].kind = "set" /\ ops[w].data = Str("v2") /\ Succeeded(ops[w])
    /\ ops[r].kind = "get" /\ Succeeded(ops[r]) /\ ops[r].res = ValRes(Str("v1"))
    /\ s \in ops[w].after /\ s \in ops[r].after
    /\ Overlap(r, w)
    /\ store[KeySeq[1]] = Wrap(Str("v2"))

\* C29: an error event of one request fails the operation of that request
\* and nothing else: the connection, the fallback reference, the store and
\* every other operation and transaction are as before; once the requests
\* are served every operation has settled, the others with their own results.
C29_FailureIsolation ==
  /\ [][ errs' # errs
         => /\ database' = database /\ fallback' = fallback /\ openReq' = openReq
            /\ store' = store /\ waiters' = waiters
            /\ \E i \in OpIds :
                 /\ ~Settled(ops[i]) /\ ops'[i].errs = 1 /\ ops'[i].err = "request"
                 /\ \A j \in OpIds \ {i} : ops'[j] = ops[j]
                 /\ \A n \in 1..Len(txs) :
                      txs[n].op # i => \E m \in 1..Len(txs') : txs'[m] = txs[n] ]_vars
  /\ []((openReq = "success" /\ txs = <<>>)
          => /\ \A i \in OpIds : Subscribed(ops[i]) => Settled(ops[i])
             /\ Cardinality({i \in OpIds : ops[i].errs > 0}) <= errs)

\* a request failed between two operations that succeeded on the same connection
C29_Witness ==
  \E j, i, k \in OpIds :
    /\ ops[j].path = "idb" /\ Succeeded(ops[j]) /\ Overlap(j, i)
    /\ ops[i].err = "request"
    /\ ops[k].path = "idb" /\ Succeeded(ops[k]) /\ i \in ops[k].after
    /\ j \notin ops[i].after

\* C30: no transaction exists before the handle is published; the step that
\* publishes it opens one transaction for every operation subscribed so far,
\* all on the published handle and in subscription order; an operation
\* subscribed after publication has its transaction on that handle in the
\* step that subscribes it.
C30_ConnectionBroadcast ==
  /\ [](database.buf = <<>> => txs = <<>>)
  /\ [][ (database.buf = <<>> /\ database'.buf # <<>>)
         => LET W == {i \in OpIds : ops[i].path = "idb" /\ Subscribed(ops[i])}
            IN /\ Len(database'.buf) = 1
               /\ ops' = ops
               /\ \A i \in W : ops[i].waited /\ ~Settled(ops[i])
               /\ Len(txs') = Cardinality(W)
               /\ \A n \in 1..Len(txs') :
                    /\ txs'[n].op \in W
                    /\ txs'[n].db = database'.buf[1]
                    /\ \A m \in 1..(n - 1) : ops[txs'[m].op].sub < ops[txs'[n].op].sub ]_vars
  /\ [][ (database.buf # <<>> /\ Len(ops') > Len(ops) /\ ops'[Len(ops')].path = "idb")
         => /\ ~ops'[Len(ops')].waited
            /\ Len(txs') = Len(txs) + 1
            /\ txs'[Len(txs')].op = Len(ops')
            /\ txs'[Len(txs')].db = database.buf[1] ]_vars

\* two operations that waited for the handle have their transactions in
\* subscription order, and an operation subscribed after publication has its
\* transaction behind them
C30_Witness ==
  /\ Len(txs) = 3
  /\ ops[txs[1].op].waited /\ ops[txs[2].op].waited /\ ~ops[txs[3].op].waited
  /\ ops[txs[1].op].sub < ops[txs[2].op].sub
  /\ ops[txs[2].op].sub < ops[txs[3].op].sub
  /\ txs[1].db = txs[3].db /\ txs[2].db = txs[3].db

\* C31: without getAllKeys, every event of the cursor request of keys() does
\* one of three things: while an entry is left, a success event adds the key
\* of one entry to the list and emits nothing; when none is left, the success
\* event emits the list once, with one key per entry of the store, and
\* completes; an error event fails the operation, which has emitted nothing.
C31_CursorEnumeration ==
  /\ [][ \A i \in OpIds :
           ( /\ ~env.idbV2 /\ ops[i].kind = "keys" /\ ops[i].path = "idb"
             /\ ops'[i] # ops[i] )
           => LET rest == Present(store) \ ops[i].acc
              IN /\ ~Settled(ops[i]) /\ ops[i].nexts = 0
                 /\ store' = store
                 /\ IF errs' # errs
                      THEN /\ ops'[i].errs = 1 /\ ops'[i].err = "request"
                           /\ ops'[i].nexts = 0 /\ ops'[i].res = NoRes
                    ELSE IF rest # {}
                      THEN /\ \E k \in rest : ops'[i].acc = ops[i].acc \cup {k}
                           /\ ops'[i].nexts = 0 /\ ~Settled(ops'[i])
                           /\ \E n \in 1..Len(txs') : txs'[n].op = i
                    ELSE /\ ops'[i].acc = ops[i].acc
                         /\ ops'[i].nexts = 1 /\ ops'[i].completes = 1 /\ ops'[i].errs = 0
                         /\ ops'[i].res = KeysRes(ops[i].acc)
                         /\ Cardinality(ops'[i].res.ks) = Cardinality(Present(store))
                         /\ \A n \in 1..Len(txs') : txs'[n].op # i ]_vars
  /\ [](\A i \in OpIds :
          (~env.idbV2 /\ ops[i].kind = "keys" /\ ops[i].path = "idb" /\ ops[i].nexts = 0)
            => ops[i].res = NoRes)

\* one walk over two entries that emitted both keys, and one walk that an
\* error event ended after its first entry
C31_Witness ==
  \E i, j \in OpIds :
    /\ ~env.idbV2
    /\ ops[i].kind = "keys" /\ ops[i].path = "idb" /\ ops[i].nexts = 1
    /\ ops[i].res = KeysRes({KeySeq[1], KeySeq[2]})
    /\ ops[j].kind = "keys" /\ ops[j].path = "idb" /\ ops[j].err = "request"
    /\ Cardinality(ops[j].acc) = 1 /\ ops[j].nexts = 0

\* C32: in the fallback, getItem(k) on text that cannot be parsed is an
\* operation that fails with the parse error when subscribed, nothing is
\* thrown at the call and the storage is left as it was; and where only this
\* backend's setItem has written to the storage, every stored text can be
\* parsed.
C32_FallbackParseError ==
  /\ [][ ( /\ Len(ops') > Len(ops)
           /\ ops'[Len(ops')].path = "fallback" /\ ops'[Len(ops')].kind = "get" )
         => LET o == ops'[Len(ops')]
            IN /\ ls' = ls
               /\ (ls[o.key] # NoText /\ ~ParseOk(ls[o.key]))
                    => (o.err = "parse" /\ o.errs = 1 /\ o.nexts = 0 /\ o.res = NoRes) ]_vars
  /\ [](\A k \in Keys : ls[k] # NoText => ParseOk(ls[k]))

\* C33: a published handle and a set fallback reference (or, in the legacy
\* class, an errored connection) never coexist; the handle is published by
\* the success event only and at most once, the fallback is set by the
\* failure of the open only and is never unset, and once the open request
\* has ended in one outcome the other is never acted upon.
C33_ModeExclusive ==
  /\ [](/\ ~(database.buf # <<>> /\ (fallback \/ database.errored))
        /\ Len(database.buf) <= 1
        /\ (database.buf # <<>>) = (openReq = "success")
        /\ (fallback \/ database.errored) => openReq \in {"error", "none"})
  /\ [][ /\ openReq # "pending" => openReq' = openReq
         /\ database' # database => openReq = "pending"
         /\ fallback' # fallback => (openReq = "pending" /\ fallback')
         /\ fallback => fallback' ]_vars

\* the open request failed under an operation that was waiting for the
\* handle, and a later operation was served by the fallback
C33_Witness ==
  \E i, j \in OpIds :
    /\ ops[i].path = "idb" /\ ops[i].waited
    /\ ops[j].path = "fallback" /\ Succeeded(ops[j])
    /\ openReq = "error" /\ fallback /\ database.buf = <<>>

\* C34: the call of setItem, removeItem or clear, not subscribed, opens no
\* transaction and leaves the object store and the storage as they were; an
\* operation that was never subscribed has no transaction; and of a
\* setItem(k, v) and a removeItem(k) or clear() that both succeeded, the one
\* subscribed last decides whether k holds an entry, whichever was called
\* first.
C34_Laziness ==
  /\ [][ ( /\ Len(ops') > Len(ops)
           /\ ops'[Len(ops')].kind \in WriteKinds
           /\ ~Subscribed(ops'[Len(ops')]) )
         => (txs' = txs /\ store' = store /\ ls' = ls) ]_vars
  /\ [](\A i \in OpIds : \A n \in 1..Len(txs) : txs[n].op = i => Subscribed(ops[i]))
  /\ [](\A s, r \in OpIds :
          ( /\ Quiescent
            /\ ops[s].kind = "set" /\ ~IsNullish(ops[s].data) /\ ops[s].path = "idb"
            /\ ops[r].kind \in {"remove", "clear"} /\ ops[r].path = "idb"
            /\ Mutates(ops[r], ops[s].key)
            /\ Succeeded(ops[s]) /\ Succeeded(ops[r])
            /\ \A x \in OpIds \ {s, r} :
                 Mutates(ops[x], ops[s].key) => ~Subscribed(ops[x]) )
          => ((store[ops[s].key] # Absent) = (ops[r].sub < ops[s].sub)))

\* what getItem, keys, has and size return on a fallback whose storage is l,
\* and on an object store st
StorageView(l) ==
  [get |-> [k \in Keys |-> LsResult(l, "get", k)],
   has |-> [k \in Keys |-> LsResult(l, "has", k)],
   keys |-> LsResult(l, "keys", KeySeq[1]),
   size |-> LsResult(l, "size", KeySeq[1])]

StoreView(st) ==
  [get |-> ContentOfStore(st),
   has |-> [k \in Keys |-> st[k] # Absent],
   keys |-> Present(st),
   size |-> Cardinality(Present(st))]

ViewOfThis == IF env.variant = "current" /\ fallback THEN StorageView(ls) ELSE StoreView(store)

ViewOfOther == StorageView(ls)

\* C35: of two instances with different prefixes, a setItem, removeItem or
\* clear of the one changes nothing of what getItem, keys, has and size
\* return on the other, whichever mode the first instance is in.
C35_InstanceIsolation ==
  /\ [][ ( /\ Len(ops') > Len(ops)
           /\ ops'[Len(ops')].kind \in WriteKinds )
         => IF ops'[Len(ops')].path = "other"
              THEN ViewOfThis' = ViewOfThis
            ELSE ViewOfOther' = ViewOfOther ]_vars
  /\ [][ store' # store => ViewOfOther' = ViewOfOther ]_vars

====
